---- MODULE Spec2Model ----
(***************************************************************************)
(* Model of metamorphio's trackers package:                                *)
(*   - trackers/schedule.py : the pydantic model Schedule, its field       *)
(*     validators (ensure_time_format, PositiveInt) and its three          *)
(*     "after" model validators, run in definition order;                  *)
(*   - trackers/task/task.py : class Task and its start / complete /       *)
(*     cancel methods.                                                     *)
(* Instants are wall-clock seconds counted from 2025-01-30 00:00:00 in the *)
(* one zone the package uses (TIME_ZONE); sub-second precision is not      *)
(* modelled.  The Task clock is counted in minutes.  An Optional value is  *)
(* a sequence: <<>> for None, <<v>> for a value v.  A str is a sequence of *)
(* one-character strings.                                                  *)
(***************************************************************************)
EXTENDS Integers, Sequences, FiniteSets, TLC

VARIABLES
    \* ---- Schedule (schedule.py:39-52) ----
    pc,                 \* which validator runs next
    now,                \* Schedule.now
    start_date,         \* Schedule.start_date
    occurrence_date,    \* Schedule.occurrence_date (rewritten by validate_occurrence)
    end_date,           \* Schedule.end_date, Optional
    at_time,            \* Schedule.at_time after field validation, Optional
    duration_minutes,   \* Schedule.duration_minutes, Optional
    result,             \* "pending", "ok" or the failure raised
    in_at_time,         \* the at_time argument as the caller passed it
    in_occurrence,      \* the occurrence_date argument as the caller passed it
    \* ---- Task (task.py:19-31) ----
    status,
    start_time,         \* Optional
    completed_time,     \* Optional
    runtime,            \* Optional
    cancellation_reason,\* Optional
    clock,              \* the last reading datetime.now(TIME_ZONE) gave
    lastOp,             \* the Task method called last
    outcome,            \* "ok" or the error that call raised
    lastStart           \* the clock reading handed to the most recent start()

schedVars == <<pc, now, start_date, occurrence_date, end_date, at_time,
               duration_minutes, result, in_at_time, in_occurrence>>
taskVars == <<status, start_time, completed_time, runtime, cancellation_reason,
              clock, lastOp, outcome, lastStart>>
vars == <<schedVars, taskVars>>

\* ------------------------------------------------------------------ bounds
MaxDay == 1
MaxLen == 6
MaxClock == 6

\* ---------------------------------------------------------------- Optional
NoneVal == <<>>
Some(v) == <<v>>
IsSet(o) == o # <<>>
Val(o) == o[1]

\* ------------------------------------------------------- datetime, timedelta
SecondsPerDay == 24 * 60 * 60
DayOf(t) == t \div SecondsPerDay
SecOfDay(t) == t % SecondsPerDay
At(day, h, m, s) == day * SecondsPerDay + h * 3600 + m * 60 + s

\* datetime.replace(hour=h, minute=m, second=0, microsecond=0): the date stays
Replace(t, h, m) == DayOf(t) * SecondsPerDay + h * 3600 + m * 60

\* datetime + timedelta(minutes=d)
AddMinutes(t, d) == t + d * 60

\* datetime.day: the day of the month.  Day 0 of the model is 2025-01-30.
MonthLengths == <<31, 28, 31, 30, 31, 30, 31, 31, 30, 31, 30, 31>>
RECURSIVE DayInMonth(_, _)
DayInMonth(n, m) ==
    IF n <= MonthLengths[m] THEN n
    ELSE DayInMonth(n - MonthLengths[m], IF m = 12 THEN 1 ELSE m + 1)
DayOfMonth(t) == DayInMonth(DayOf(t) + 30, 1)

\* ------------------------------------------------------------------- str
Whitespace == {" ", "\t"}
Digits == {"0", "1", "2", "3", "4", "5", "6", "7", "8", "9"}
DigitValue(c) ==
    CASE c = "0" -> 0 [] c = "1" -> 1 [] c = "2" -> 2 [] c = "3" -> 3
      [] c = "4" -> 4 [] c = "5" -> 5 [] c = "6" -> 6 [] c = "7" -> 7
      [] c = "8" -> 8 [] c = "9" -> 9

RECURSIVE StripLeft(_)
StripLeft(s) ==
    IF Len(s) > 0 /\ s[1] \in Whitespace THEN StripLeft(Tail(s)) ELSE s
RECURSIVE StripRight(_)
StripRight(s) ==
    IF Len(s) > 0 /\ s[Len(s)] \in Whitespace
    THEN StripRight(SubSeq(s, 1, Len(s) - 1)) ELSE s
\* str.strip()
Strip(s) == StripRight(StripLeft(s))

\* re.match('^([0-1][0-9]|2[0-3]):([0-5][0-9])$', s) is not None
MatchesTimeRegexLoose(s) ==
    \/ /\ Len(s) = 5
       /\ \/ s[1] \in {"0", "1"} /\ s[2] \in Digits
          \/ s[1] = "2" /\ s[2] \in {"0", "1", "2", "3"}
       /\ s[3] = ":"
       /\ s[4] \in {"0", "1", "2", "3", "4", "5"}
       /\ s[5] \in Digits
    \/ /\ Len(s) = 4
       /\ s[1] \in Digits
       /\ s[2] = ":"
       /\ s[3] \in {"0", "1", "2", "3", "4", "5"}
       /\ s[4] \in Digits
MatchesTimeRegex(s) ==
    /\ Len(s) = 5
    /\ \/ s[1] \in {"0", "1"} /\ s[2] \in Digits
       \/ s[1] = "2" /\ s[2] \in {"0", "1", "2", "3"}
    /\ s[3] = ":"
    /\ s[4] \in {"0", "1", "2", "3", "4", "5"}
    /\ s[5] \in Digits

\* The at_time argument: omitted, a value that is not a str, or a str.
AbsentArg == [kind |-> "absent", chars |-> <<>>]
NonStrArg == [kind |-> "nonstr", chars |-> <<>>]
StrArg(s) == [kind |-> "str", chars |-> s]

\* ensure_time_format: the stripped string, or a failure
ensure_time_format(arg) ==
    IF arg.kind # "str" THEN [ok |-> FALSE, value |-> <<>>]
    ELSE IF ~MatchesTimeRegex(Strip(arg.chars)) THEN [ok |-> FALSE, value |-> <<>>]
    ELSE [ok |-> TRUE, value |-> Strip(arg.chars)]

\* str.split(":")
RECURSIVE SplitColon(_)
SplitColon(s) ==
    IF \A i \in 1..Len(s) : s[i] # ":" THEN <<s>>
    ELSE LET i == CHOOSE k \in 1..Len(s) :
                      s[k] = ":" /\ \A j \in 1..(k - 1) : s[j] # ":"
         IN  <<SubSeq(s, 1, i - 1)>> \o SplitColon(SubSeq(s, i + 1, Len(s)))

\* int(p) of a run of decimal digits
RECURSIVE ToInt(_)
ToInt(p) ==
    IF Len(p) = 0 THEN 0
    ELSE 10 * ToInt(SubSeq(p, 1, Len(p) - 1)) + DigitValue(p[Len(p)])
IsInt(p) == Len(p) > 0 /\ \A i \in 1..Len(p) : p[i] \in Digits

\* hours, minutes = map(int, at_time.split(":")); occur_obj.replace(...)
\* (the try block of validate_occurrence)
ParseAndReplace(occ, s) ==
    LET parts == SplitColon(s) IN
    IF /\ Len(parts) = 2
       /\ IsInt(parts[1]) /\ IsInt(parts[2])
       /\ ToInt(parts[1]) \in 0..23 /\ ToInt(parts[2]) \in 0..59
    THEN [ok |-> TRUE, value |-> Replace(occ, ToInt(parts[1]), ToInt(parts[2]))]
    ELSE [ok |-> FALSE, value |-> occ]

\* ---------------------------------------------------------- Schedule checks
\* PositiveInt: the field accepts an int greater than 0 (None is accepted as is)
PositiveIntOk(d) == ~IsSet(d) \/ Val(d) > 0

\* validate_date_order: `self.end_date and self.end_date < self.start_date`
DateOrderFlipped(e, s) == IsSet(e) /\ Val(e) > s
DateOrderBroken(e, s) == IsSet(e) /\ Val(e) < s

\* validate_duration: `self.duration_minutes not in range(1, 1441)`
DurationOutOfRange(d) == Val(d) \notin 1..1440

\* validate_duration: `endured.day != self.occurrence_date.day`
CrossesMidnightLate(occ, d) == DayOfMonth(AddMinutes(occ, d) - 1) # DayOfMonth(occ)
CrossesMidnight(occ, d) == DayOfMonth(AddMinutes(occ, d)) # DayOfMonth(occ)

\* The failures, named as the design names them, by the place that raises:
\*   MalformedTimeOfDay      schedule.py:30, :34, :80
\*   DurationOutOfRange      the PositiveInt field check, schedule.py:52; :90
\*   DateOrderViolation      schedule.py:57
\*   OccurrenceBeforeStart   schedule.py:65
\*   OccurrenceInPast        schedule.py:68
\*   OccurrenceAfterEnd      schedule.py:71
\*   DurationCrossesMidnight schedule.py:97
Fail(kind) == pc' = "done" /\ result' = kind

\* Field validation, in field order: at_time's BeforeValidator raises out of the
\* validation at once (what it raises is no ValueError the field loop collects);
\* then duration_minutes is checked against PositiveInt; a field failure skips
\* the model validators.
FieldValidation ==
    /\ pc = "fields"
    /\ LET r == ensure_time_format(in_at_time) IN
       IF in_at_time.kind # "absent" /\ ~r.ok
       THEN Fail("MalformedTimeOfDay") /\ UNCHANGED at_time
       ELSE IF ~PositiveIntOk(duration_minutes)
       THEN Fail("DurationOutOfRange") /\ UNCHANGED at_time
       ELSE /\ at_time' = IF in_at_time.kind = "absent" THEN NoneVal ELSE Some(r.value)
            /\ pc' = "date_order"
            /\ UNCHANGED result
    /\ UNCHANGED <<now, start_date, occurrence_date, end_date, duration_minutes,
                   in_at_time, in_occurrence, taskVars>>

validate_date_order ==
    /\ pc = "date_order"
    /\ IF DateOrderBroken(end_date, start_date)
       THEN Fail("DateOrderViolation")
       ELSE pc' = "occurrence" /\ UNCHANGED result
    /\ UNCHANGED <<now, start_date, occurrence_date, end_date, at_time,
                   duration_minutes, in_at_time, in_occurrence, taskVars>>

validate_occurrence ==
    /\ pc = "occurrence"
    /\ LET occur_obj == occurrence_date IN
       IF occur_obj < start_date
       THEN Fail("OccurrenceBeforeStart") /\ UNCHANGED occurrence_date
       ELSE IF occur_obj < now
       THEN Fail("OccurrenceInPast") /\ UNCHANGED occurrence_date
       ELSE IF IsSet(end_date) /\ occur_obj > Val(end_date)
       THEN Fail("OccurrenceAfterEnd") /\ UNCHANGED occurrence_date
       ELSE IF IsSet(at_time) /\ Val(at_time) # <<>>
       THEN LET r == ParseAndReplace(occur_obj, Val(at_time)) IN
            IF r.ok
            THEN /\ occurrence_date' = r.value
                 /\ pc' = "duration"
                 /\ UNCHANGED result
            ELSE Fail("MalformedTimeOfDay") /\ UNCHANGED occurrence_date
       ELSE pc' = "duration" /\ UNCHANGED <<result, occurrence_date>>
    /\ UNCHANGED <<now, start_date, end_date, at_time, duration_minutes,
                   in_at_time, in_occurrence, taskVars>>

validate_duration ==
    /\ pc = "duration"
    /\ IF IsSet(duration_minutes) /\ DurationOutOfRange(duration_minutes)
       THEN Fail("DurationOutOfRange")
       ELSE IF IsSet(duration_minutes)
               /\ CrossesMidnight(occurrence_date, Val(duration_minutes))
       THEN Fail("DurationCrossesMidnight")
       ELSE pc' = "done" /\ result' = "ok"
    /\ UNCHANGED <<now, start_date, occurrence_date, end_date, at_time,
                   duration_minutes, in_at_time, in_occurrence, taskVars>>

\* ------------------------------------------------------------------- Task
\* Task.__init__
TaskInit ==
    /\ status = "created"
    /\ start_time = NoneVal
    /\ completed_time = NoneVal
    /\ runtime = NoneVal
    /\ cancellation_reason = NoneVal
    /\ clock = 0
    /\ lastOp = "init"
    /\ outcome = "ok"
    /\ lastStart = NoneVal

\* datetime.now(TIME_ZONE): a reading not before the last one
Readings == {t \in 0..MaxClock : t >= clock}

\* Task.start
start ==
    \E t \in Readings :
        /\ clock' = t
        /\ start_time' = Some(t)
        /\ status' = "in_progress"
        /\ lastOp' = "start"
        /\ outcome' = "ok"
        /\ lastStart' = Some(t)
        /\ UNCHANGED <<completed_time, runtime, cancellation_reason, schedVars>>

\* Task._calculate_runtime: a datetime is always truthy, so the test is for None
CalculateRuntimeDefault(st, ct) ==
    IF IsSet(st) /\ IsSet(ct)
    THEN [ok |-> TRUE, value |-> Val(ct) - Val(st)]
    ELSE [ok |-> TRUE, value |-> 0]
CalculateRuntimeSwapped(st, ct) ==
    IF IsSet(st) /\ IsSet(ct)
    THEN [ok |-> TRUE, value |-> Val(st) - Val(ct)]
    ELSE [ok |-> FALSE, value |-> 0]
CalculateRuntime(st, ct) ==
    IF IsSet(st) /\ IsSet(ct)
    THEN [ok |-> TRUE, value |-> Val(ct) - Val(st)]
    ELSE [ok |-> FALSE, value |-> 0]

\* Task.complete: the two assignments come before the call that may raise
complete ==
    \E t \in Readings :
        /\ clock' = t
        /\ completed_time' = Some(t)
        /\ status' = "completed"
        /\ LET r == CalculateRuntime(start_time, Some(t)) IN
           IF r.ok
           THEN runtime' = Some(r.value) /\ outcome' = "ok"
           ELSE runtime' = runtime /\ outcome' = "MissingTimestamps"
        /\ lastOp' = "complete"
        /\ UNCHANGED <<start_time, cancellation_reason, lastStart, schedVars>>

\* Task.cancel(reason): `if reason:` is false for None and for ""
Reasons == {NoneVal, Some(""), Some("duplicate"), Some("obsolete")}
cancel ==
    \E reason \in Reasons :
        /\ status' = "canceled"
        /\ cancellation_reason' =
               IF IsSet(reason) /\ Val(reason) # "" THEN reason
               ELSE cancellation_reason
        /\ lastOp' = "cancel"
        /\ outcome' = "ok"
        /\ UNCHANGED <<start_time, completed_time, runtime, clock, lastStart,
                       schedVars>>

\* -------------------------------------------------------- specifications
\* Schedule(...) called with arguments from the given sets.
SchedCall(nows, starts, occs, ends, ats, durs) ==
    /\ pc = "fields"
    /\ result = "pending"
    /\ now \in nows
    /\ start_date \in starts
    /\ in_occurrence \in occs
    /\ occurrence_date = in_occurrence
    /\ end_date \in ends
    /\ in_at_time \in ats
    /\ at_time = NoneVal
    /\ duration_minutes \in durs

Days == 0..MaxDay
NowInputs == {At(0, 0, 0, 0), At(0, 8, 30, 0)}
StartInputs == {At(d, h, 0, 0) : d \in Days, h \in {0, 9}}
OccurrenceInputs ==
    {At(d, 0, 0, 0) : d \in Days} \cup {At(d, 9, 0, 0) : d \in Days}
        \cup {At(d, 9, 0, 30) : d \in Days} \cup {At(d, 23, 59, 30) : d \in Days}
EndInputs == {NoneVal} \cup {Some(At(d, 9, 0, 0)) : d \in Days}
                \cup {Some(At(d, 23, 59, 59)) : d \in Days}
AtTimeInputs ==
    {AbsentArg, NonStrArg,
     StrArg(<<"0", "9", ":", "0", "0">>), StrArg(<<"0", "9", ":", "3", "0">>),
     StrArg(<<" ", "0", "8", ":", "0", "0", " ">>),
     StrArg(<<"0", "0", ":", "0", "0">>), StrArg(<<"2", "3", ":", "5", "9">>),
     StrArg(<<"2", "4", ":", "0", "0">>), StrArg(<<"9", ":", "3", "0">>),
     StrArg(<<"1", "2", ":", "6", "0">>)}
DurationInputs ==
    {NoneVal, Some(-1), Some(0), Some(1), Some(90), Some(1000), Some(1439),
     Some(1440), Some(1441)}

ScheduleInit ==
    /\ SchedCall(NowInputs, StartInputs, OccurrenceInputs, EndInputs,
                 AtTimeInputs, DurationInputs)
    /\ TaskInit

ScheduleNext ==
    \/ FieldValidation
    \/ validate_date_order
    \/ validate_occurrence
    \/ validate_duration

\* Schedule(...): field validation, then the model validators in the order
\* the class defines them.
Spec == ScheduleInit /\ [][ScheduleNext]_vars

\* Every str of at most MaxLen characters over Alphabet, and the strings the
\* design names, as at_time.
Alphabet == {"0", "2", "4", "6", ":", " "}
AllStrings == UNION {[1..n -> Alphabet] : n \in 0..MaxLen}
NamedStrings ==
    {<<"0", "9", ":", "3", "0">>, <<"9", ":", "3", "0">>,
     <<"1", "2", ":", "6", "0">>, <<"2", "4", ":", "0", "0">>,
     <<"2", "3", ":", "5", "9">>, <<"1", "9", ":", "0", "7">>,
     <<"0", "9", ":", "3", "0", ":", "0", "0">>,
     <<"\t", "0", "9", ":", "3", "0", " ">>,
     <<"0", "9", " ", ":", "3", "0">>, <<"a", "b", ":", "c", "d">>}
AtTimeInit ==
    /\ SchedCall({At(0, 0, 0, 0)}, {At(0, 0, 0, 0)},
                 {At(0, 9, 0, 30), At(MaxDay, 23, 59, 59)}, {NoneVal},
                 {StrArg(s) : s \in AllStrings \cup NamedStrings} \cup {NonStrArg},
                 {NoneVal})
    /\ TaskInit
AtTimeSpec == AtTimeInit /\ [][ScheduleNext]_vars

\* A Task is constructed and its methods are called in any order.
TaskOnlyInit ==
    /\ pc = "idle"
    /\ now = 0 /\ start_date = 0 /\ occurrence_date = 0 /\ in_occurrence = 0
    /\ end_date = NoneVal /\ at_time = NoneVal /\ duration_minutes = NoneVal
    /\ in_at_time = AbsentArg
    /\ result = "pending"
    /\ TaskInit
TaskNext == start \/ complete \/ cancel
TaskSpec == TaskOnlyInit /\ [][TaskNext]_vars

\* ===================================================================
\* Properties
\* ===================================================================
\* The design's own reading of the inputs, stated without the validators.
WellFormedHHMM(t) ==
    /\ Len(t) = 5
    /\ t[3] = ":"
    /\ \A i \in {1, 2, 4, 5} : t[i] \in Digits
    /\ 10 * DigitValue(t[1]) + DigitValue(t[2]) \in 0..23
    /\ 10 * DigitValue(t[4]) + DigitValue(t[5]) \in 0..59
Trimmed == Strip(in_at_time.chars)
AtTimeAbsent == in_at_time.kind = "absent"
AtTimeWellFormed == in_at_time.kind = "str" /\ WellFormedHHMM(Trimmed)
AtTimeMalformed == ~AtTimeAbsent /\ ~AtTimeWellFormed
AtTimeSeconds ==
    (10 * DigitValue(Trimmed[1]) + DigitValue(Trimmed[2])) * 3600
        + (10 * DigitValue(Trimmed[4]) + DigitValue(Trimmed[5])) * 60
\* the time of day the occurrence ends up with
ExpectedTimeOfDay == IF AtTimeAbsent THEN SecOfDay(in_occurrence) ELSE AtTimeSeconds
EndBeforeStart == IsSet(end_date) /\ Val(end_date) < start_date
DateChecksPass ==
    /\ ~EndBeforeStart
    /\ in_occurrence >= start_date
    /\ in_occurrence >= now
    /\ IsSet(end_date) => in_occurrence <= Val(end_date)
Returned == pc = "done" /\ result = "ok"
Finished == pc = "done"

\* C1: every Schedule validation returns satisfies the date invariants on its
\* final field values: endDate (if set) >= startDate, and the final
\* occurrenceDate is >= startDate, >= now and (if endDate is set) <= endDate.
C1_FinalDateInvariants ==
    Returned =>
        /\ IsSet(end_date) => Val(end_date) >= start_date
        /\ occurrence_date >= start_date
        /\ occurrence_date >= now
        /\ IsSet(end_date) => occurrence_date <= Val(end_date)

\* C2: Completed and Canceled are terminal: once status is Completed or
\* Canceled, no later start, complete or cancel changes it.
C2_TerminalStatesStay ==
    [][(status \in {"completed", "canceled"}) => (status' = status)]_vars

C4_DurationWithinDay ==
    (/\ Finished
     /\ AtTimeAbsent \/ AtTimeWellFormed
     /\ DateChecksPass
     /\ IsSet(duration_minutes) /\ Val(duration_minutes) \in 1..1440)
    => result = IF ExpectedTimeOfDay + 60 * Val(duration_minutes) < SecondsPerDay
                THEN "ok" ELSE "DurationCrossesMidnight"
C4_Witness ==
    /\ Returned
    /\ AtTimeWellFormed
    /\ SecOfDay(in_occurrence) # AtTimeSeconds
    /\ SecOfDay(occurrence_date) = 9 * 3600
    /\ duration_minutes = Some(90)

\* C5: complete on a Task on which start was never called fails with
\* MissingTimestamps, and such a Task never has a runtime.
C5_CompleteWithoutStartFails ==
    ~IsSet(lastStart) =>
        /\ ~IsSet(runtime)
        /\ lastOp = "complete" => outcome = "MissingTimestamps"
C5_Witness ==
    /\ lastOp = "complete"
    /\ ~IsSet(lastStart)
    /\ outcome = "MissingTimestamps"

\* C6: complete on a Task whose startTime is set succeeds and leaves status =
\* Completed, completedTime = the clock reading of the call and runtime =
\* completedTime - the reading of the most recent start (5 minutes when the
\* clock advanced by 5 minutes in between).
C6_CompleteSetsRuntime ==
    lastOp = "complete" /\ IsSet(start_time) =>
        /\ outcome = "ok"
        /\ status = "completed"
        /\ completed_time = Some(clock)
        /\ start_time = lastStart
        /\ runtime = Some(clock - Val(lastStart))
C6_Witness ==
    /\ lastOp = "complete"
    /\ IsSet(lastStart)
    /\ clock = Val(lastStart) + 5
    /\ runtime = Some(5)
    /\ status = "completed"

C8_FailFastOrder ==
    Finished =>
        result =
            IF AtTimeMalformed THEN "MalformedTimeOfDay"
            ELSE IF EndBeforeStart THEN "DateOrderViolation"
            ELSE IF in_occurrence < start_date THEN "OccurrenceBeforeStart"
            ELSE IF in_occurrence < now THEN "OccurrenceInPast"
            ELSE IF IsSet(end_date) /\ in_occurrence > Val(end_date)
            THEN "OccurrenceAfterEnd"
            ELSE IF IsSet(duration_minutes) /\ Val(duration_minutes) \notin 1..1440
            THEN "DurationOutOfRange"
            ELSE IF IsSet(duration_minutes)
                    /\ ExpectedTimeOfDay + 60 * Val(duration_minutes) >= SecondsPerDay
            THEN "DurationCrossesMidnight"
            ELSE "ok"

\* C9: with the date-ordering checks passing, durationMinutes = 1440 is
\* accepted when the occurrence's time of day is 00:00:00 and fails with
\* DurationCrossesMidnight for every other time of day.
C9_FullDayOnlyFromMidnight ==
    (/\ Finished
     /\ AtTimeAbsent \/ AtTimeWellFormed
     /\ DateChecksPass
     /\ duration_minutes = Some(1440))
    => result = IF ExpectedTimeOfDay = 0 THEN "ok" ELSE "DurationCrossesMidnight"

\* C10: a complete call that fails leaves the Task unchanged, so in every
\* reachable state status = Completed implies startTime, completedTime and
\* runtime are all set.
C10_CompletedHasTimestamps ==
    status = "completed" =>
        IsSet(start_time) /\ IsSet(completed_time) /\ IsSet(runtime)

====
